---- MODULE Spec2Model ----
(***************************************************************************)
(* cctail (src/src/cctail.ts): the session orchestrator that resolves the  *)
(* active profile, discovers today's remote log files and then polls them  *)
(* in a self-rescheduling cycle with rollover, refresh, profiler dedup and *)
(* error-budget re-authorization.                                          *)
(*                                                                         *)
(* Time is counted in ticks: timer delays and intervals are in ticks and a *)
(* calendar day is DayLen ticks.  A log name is the record of the parts    *)
(* the code inspects: the text before the first hyphen (pre), the 8-digit  *)
(* date in front of the suffix (stamp, <<>> when the name has none) and    *)
(* the last four characters (ext).  A listing entry pairs a name with the  *)
(* raw date column of the listing (date, a tick).  The awaits of one poll   *)
(* cycle, and of startup, complete within a tick: the clock advances       *)
(* between cycles.                                                         *)
(***************************************************************************)
EXTENDS Integers, Sequences, FiniteSets, TLC

VARIABLES
    pc,                         \* position of the one thread of control
    caller,                     \* who called interact/dontInteract: "run", "refresh", "rollover"
    phase,                      \* which getThatLogList call is running: "di_log", "di_csv", "i_log"
    listed,                     \* the .log listing: dontInteract's fileobjs, interact's sorted fileobjs
    logx,                       \* dontInteract: logx while the profiler listing is awaited
    profiles,                   \* line 20: the loaded profile mapping (its keys), {} before it is read
    interactive,                \* line 23, set by readLogConf
    profilename,                \* run: args._[0]
    profile,                    \* line 21: key of the active profile, NoProfile when unset
    token,                      \* profile.token
    pollingSeconds,             \* line 24
    refreshLogListSeconds,      \* line 25
    nextLogRefresh,             \* line 26: <<>> when undefined, else <<tick>>
    latestCodeprofilerLogSent,  \* line 27: <<>> when undefined, else <<descriptor>>
    errorcount,                 \* logfetcher.errorcount
    fileobjs,                   \* pollLogs: the tracked descriptors (argument carried by the timer)
    doRollover,                 \* pollLogs: the rollover flag (argument carried by the timer)
    timers,                     \* the pollLogs callbacks pending on a timer: their due ticks
    pending,                    \* indices of the tracked descriptors whose content fetch is unresolved
    exitCode,                   \* <<>> while running, <<status>> after process.exit
    now,                        \* the clock
    cyc,                        \* what the current (or last) poll cycle did
    newfiles,                   \* what interact/dontInteract just returned (until the next step of the loop)
    lastcp                      \* the newest profiler file the last dontInteract call saw, and what it did with it

vars == <<pc, caller, phase, listed, logx, profiles, interactive,
          profilename, profile, token, pollingSeconds, refreshLogListSeconds,
          nextLogRefresh, latestCodeprofilerLogSent, errorcount, fileobjs,
          doRollover, timers, pending, exitCode, now, cyc, newfiles, lastcp>>

(***************************************************************************)
(* Bounds of the model.                                                    *)
(***************************************************************************)
MaxTime == 3        \* the clock stops at this tick (timers then fire at once)
DayLen == 2         \* ticks per calendar day
MaxListing == 2     \* entries a listing document holds at most
MaxSize == 1        \* bytes a remote log file holds at most
TzOffset == 0       \* offset of the process's local time zone from UTC, in ticks

(***************************************************************************)
(* Program constants.                                                      *)
(***************************************************************************)
DefaultPollingSeconds == 3
DefaultRefreshLogListSeconds == 600
errorlimit == 0

NoProfile == "(undefined)"
NoName == "(no name)"
Null == "null"

Min(a, b) == IF a < b THEN a ELSE b

(***************************************************************************)
(* Configuration: the profiles log.conf.json may hold.  An interval is <<>> *)
(* when the profile has none (or a falsy one) and else <<ticks>>; <<0>> is *)
(* an interval shorter than a tick.                                        *)
(***************************************************************************)
ProfileNames == {"dev", "stg", "qa", "prd"}

Conf(p) ==
    CASE p = "dev" -> [has_log_types |-> FALSE, log_types |-> <<>>,
                       polling_interval |-> <<1>>, refresh_loglist_interval |-> <<1>>,
                       api |-> TRUE]
      [] p = "stg" -> [has_log_types |-> TRUE, log_types |-> <<"codeprofiler", "error">>,
                       polling_interval |-> <<>>, refresh_loglist_interval |-> <<>>,
                       api |-> FALSE]
      [] p = "qa"  -> [has_log_types |-> TRUE, log_types |-> <<>>,
                       polling_interval |-> <<>>, refresh_loglist_interval |-> <<>>,
                       api |-> FALSE]
      [] OTHER     -> [has_log_types |-> TRUE, log_types |-> <<"error", "codeprofiler">>,
                       polling_interval |-> <<1>>, refresh_loglist_interval |-> <<0>>,
                       api |-> TRUE]

ProfileMaps == {{"dev"}, ProfileNames}
ProfileArgs == ProfileNames \cup {NoName, "nope"}

(***************************************************************************)
(* Calendar.                                                               *)
(***************************************************************************)
UtcDay(t) == t \div DayLen
LocalDay(t) == (t + TzOffset) \div DayLen
StartOfUtcDay(t) == UtcDay(t) * DayLen

\* isAfter without the 'day' granularity handled right: a date on the last
\* tick of yesterday is not seen as before today
IsAfterDayOffByOne(t, date) == date < StartOfUtcDay(t) - 1

\* moment.utc().isAfter(d.date, 'day'): d.date lies before the start of today (UTC)
IsAfterDay(t, date) == date < StartOfUtcDay(t)

(***************************************************************************)
(* What a listing document may hold at tick t: names stamped with today or *)
(* yesterday or not at all; a .log file was last written at t, a profiler  *)
(* file at t or a tick before.                                             *)
(***************************************************************************)
Prefixes == {"error", "warn"}
Suffixes == {".log", ".csv"}
Stamps(t) == {<<>>} \cup {<<d>> : d \in {x \in {LocalDay(t) - 1, LocalDay(t)} : x >= 0}}
Dates(t) == {x \in {t - 1, t} : x >= 0}
Entries(t) ==
    {e \in [log : [pre : Prefixes, stamp : Stamps(t), ext : Suffixes], date : Dates(t)] :
        e.log.ext = ".log" => e.date = t}

\* the listing documents fetchLogList may return at tick t
Documents(t) == UNION {[1..n -> Entries(t)] : n \in 0..MaxListing}

(***************************************************************************)
(* getThatLogList (lines 206-244): the scan loop over the listing's        *)
(* entries.                                                                *)
(***************************************************************************)
\* line 223-226: the 8-digit date of the name parsed as a local calendar day;
\* line 231: the suffix matches and that day is the current local day
KeepEntry(e, filesuffix, t) ==
    /\ e.log.ext = filesuffix
    /\ e.log.stamp # <<>>
    /\ e.log.stamp[1] = LocalDay(t)

\* lines 232-237: the descriptor pushed for a kept entry (no size yet)
Descriptor(e) == [log |-> e.log, date |-> e.date]

RECURSIVE ScanFrom(_, _, _, _, _)
ScanFrom(doc, filesuffix, t, fo, i) ==
    IF i > Len(doc) THEN fo
    ELSE ScanFrom(doc, filesuffix, t,
                  IF KeepEntry(doc[i], filesuffix, t) THEN Append(fo, Descriptor(doc[i]))
                  ELSE fo,
                  i + 1)

\* lines 207-243: the descriptors getThatLogList returns for a document
GetThatLogListResult(doc, filesuffix, t) == ScanFrom(doc, filesuffix, t, <<>>, 1)

\* everything getThatLogList may return at tick t, over all documents
Discovered[t \in 0..MaxTime, filesuffix \in Suffixes] ==
    {GetThatLogListResult(doc, filesuffix, t) : doc \in Documents(t)}

(***************************************************************************)
(* dontInteract (lines 66-117): pure parts.                                *)
(***************************************************************************)
RECURSIVE IndexFrom(_, _, _)
IndexFrom(seq, x, i) ==
    IF i > Len(seq) THEN -1
    ELSE IF seq[i] = x THEN i - 1
    ELSE IndexFrom(seq, x, i + 1)

\* Array.prototype.indexOf: 0-based, -1 when absent
IndexOf(seq, x) == IndexFrom(seq, x, 1)

\* line 96: the text before the first hyphen
LogName(d) == d.log.pre

InLogTypes(p, d) == IndexOf(Conf(p).log_types, LogName(d)) # -1

\* lines 94-103 keeping every descriptor whatever the allow-list
FilterLogTypesKeepAll(p, fo) == fo

\* lines 94-103
FilterLogTypes(p, fo) ==
    IF Conf(p).has_log_types /\ Len(Conf(p).log_types) > 0
    THEN SelectSeq(fo, LAMBDA d : InLogTypes(p, d))
    ELSE fo

\* line 105
WantsCodeprofiler(p) ==
    \/ ~Conf(p).has_log_types
    \/ IndexOf(Conf(p).log_types, "codeprofiler") > 0

RECURSIVE NewestFrom(_, _, _)
NewestFrom(seq, newest, i) ==
    IF i > Len(seq) THEN newest
    ELSE NewestFrom(seq, IF newest.date > seq[i].date THEN newest ELSE seq[i], i + 1)

\* line 108: reduce without an initial value
Newest(seq) == NewestFrom(seq, seq[1], 2)

\* line 109 with isSameOrAfter in place of isAfter
IsNewCodeprofilerOrSame(latest, cp) == latest = <<>> \/ cp.date >= latest[1].date

\* line 109
IsNewCodeprofiler(latest, cp) == latest = <<>> \/ cp.date > latest[1].date

\* lines 107-113: logx after the profiler listing was scanned
WithCodeprofiler(lx, latest, cps) ==
    IF Len(cps) > 0 /\ IsNewCodeprofiler(latest, Newest(cps))
    THEN Append(lx, Newest(cps))
    ELSE lx

\* lines 107-113: latestCodeprofilerLogSent after the profiler listing was scanned
LatestAfter(latest, cps) ==
    IF Len(cps) > 0 /\ IsNewCodeprofiler(latest, Newest(cps))
    THEN <<Newest(cps)>>
    ELSE latest

(***************************************************************************)
(* interact (lines 119-193): pure parts.                                   *)
(***************************************************************************)
RECURSIVE InsertByDate(_, _)
\* d goes behind every element that is not older than it (the sort is stable)
InsertByDate(sorted, d) ==
    IF sorted = <<>> THEN <<d>>
    ELSE IF Head(sorted).date >= d.date
         THEN <<Head(sorted)>> \o InsertByDate(Tail(sorted), d)
         ELSE <<d>> \o sorted

RECURSIVE SortFrom(_, _, _)
SortFrom(seq, sorted, i) ==
    IF i > Len(seq) THEN sorted
    ELSE SortFrom(seq, InsertByDate(sorted, seq[i]), i + 1)

\* line 153: newest first
SortByDateDesc(seq) == SortFrom(seq, <<>>, 1)

RECURSIVE Pick(_, _, _)
Pick(seq, chosen, i) ==
    IF i > Len(seq) THEN <<>>
    ELSE (IF i \in chosen THEN <<seq[i]>> ELSE <<>>) \o Pick(seq, chosen, i + 1)

\* lines 186-190: the chosen entries, in the order of the choices
Selected(seq, chosen) == Pick(seq, chosen, 1)

(***************************************************************************)
(* pollLogs (lines 246-308): pure parts.                                   *)
(***************************************************************************)
HasName(fo, name) == \E i \in 1..Len(fo) : fo[i].log = name

RECURSIVE MergeFrom(_, _, _)
MergeFrom(fo, nf, i) ==
    IF i > Len(nf) THEN fo
    ELSE MergeFrom(IF HasName(fo, nf[i].log) THEN fo ELSE Append(fo, nf[i]), nf, i + 1)

\* lines 263-268 without the name test of line 264
MergeAll(fo, nf) == fo \o nf

\* lines 263-268
MergeNew(fo, nf) == MergeFrom(fo, nf, 1)

\* line 284: logobj.log.endsWith("csv")
EndsWithCsv(d) == d.log.ext = ".csv"

RECURSIVE FindCsvFrom(_, _)
FindCsvFrom(fo, i) ==
    IF i > Len(fo) THEN -1
    ELSE IF EndsWithCsv(fo[i]) THEN i - 1
    ELSE FindCsvFrom(fo, i + 1)

\* line 284: findIndex, 0-based, -1 when absent
FindCsv(fo) == FindCsvFrom(fo, 1)

\* line 287: splice(cp, 1)
Splice(fo, cp) == SubSeq(fo, 1, cp) \o SubSeq(fo, cp + 2, Len(fo))

\* lines 284-288
RemoveCodeprofiler(fo) == IF FindCsv(fo) > -1 THEN Splice(fo, FindCsv(fo)) ELSE fo

WithSize(d, s) == [log |-> d.log, date |-> d.date, size |-> s]
HasSize(d) == "size" \in DOMAIN d

\* lines 299-301 with the loop left out
KeepSizes(fo) == fo

\* lines 299-301
ResetSizes(fo) == [i \in 1..Len(fo) |-> WithSize(fo[i], -1)]

\* line 255 comparing with yesterday instead of today
RolledOverLate(fo, t) == fo[1].date < StartOfUtcDay(t) - DayLen

\* line 255; reading fileobjs[0] of an empty list throws
RolledOver(fo, t) == IsAfterDay(t, fo[1].date)

\* line 260 without the test that nextLogRefresh is set
RefreshDueUnset(t) == nextLogRefresh = <<>> \/ t >= nextLogRefresh[1]

\* line 260
RefreshDue(t) == nextLogRefresh # <<>> /\ t >= nextLogRefresh[1]

\* line 247 with >= in place of >
OverBudgetOrAt(p) == Conf(p).api /\ errorcount >= errorlimit

\* line 247
OverBudget(p) == Conf(p).api /\ errorcount > errorlimit

(***************************************************************************)
(* The state machine.                                                      *)
(***************************************************************************)
cfgVars == <<profiles, interactive>>
profVars == <<profile, pollingSeconds, refreshLogListSeconds, nextLogRefresh>>

NoCycle == [ran |-> FALSE, roll |-> FALSE, errs |-> 0, old |-> FALSE,
            auths |-> 0, lists |-> 0, fetches |-> 0, emits |-> 0, arms |-> 0]

\* a pollLogs invocation begins: its arguments and the error count it finds
NewCycle == [ran |-> TRUE, roll |-> doRollover, errs |-> errorcount, old |-> FALSE,
             auths |-> 0, lists |-> 0, fetches |-> 0, emits |-> 0, arms |-> 0]

Init ==
    /\ pc = "start"
    /\ caller = ""
    /\ phase = ""
    /\ listed = <<>>
    /\ logx = <<>>
    /\ profiles = {}
    /\ interactive = TRUE
    /\ profilename \in ProfileArgs
    /\ profile = NoProfile
    /\ token = "token"
    /\ pollingSeconds = DefaultPollingSeconds
    /\ refreshLogListSeconds = DefaultRefreshLogListSeconds
    /\ nextLogRefresh = <<>>
    /\ latestCodeprofilerLogSent = <<>>
    /\ errorcount = 0
    /\ fileobjs = <<>>
    /\ doRollover = FALSE
    /\ timers = <<>>
    /\ pending = {}
    /\ exitCode = <<>>
    /\ now = 0
    /\ cyc = NoCycle
    /\ newfiles = <<>>
    /\ lastcp = <<>>

ClearLocals ==
    /\ caller' = ""
    /\ phase' = ""
    /\ listed' = <<>>
    /\ logx' = <<>>

\* process.exit(code)
Exit(code) ==
    /\ pc' = "exited"
    /\ exitCode' = <<code % 256>>
    /\ timers' = <<>>
    /\ ClearLocals
    /\ UNCHANGED <<fileobjs, doRollover, pending, cyc>>

\* an exception leaves the async function: the invocation ends, nothing is scheduled
Throw ==
    /\ pc' = "crashed"
    /\ ClearLocals
    /\ UNCHANGED <<fileobjs, doRollover, timers, pending, exitCode, cyc>>

\* line 63: setImmediate(pollLogs, fileobjs)
SetImmediate(fo) ==
    /\ pc' = "idle"
    /\ fileobjs' = fo
    /\ doRollover' = FALSE
    /\ timers' = Append(timers, now)
    /\ ClearLocals
    /\ UNCHANGED <<pending, exitCode, cyc>>

\* line 307: setTimeout(pollLogs, pollingSeconds * 1000, fileobjs, doRollover)
SetTimeout(fo, roll, cy) ==
    /\ pc' = "idle"
    /\ fileobjs' = fo
    /\ doRollover' = roll
    /\ timers' = Append(timers, Min(now + pollingSeconds, MaxTime))
    /\ cyc' = [cy EXCEPT !.arms = @ + 1]
    /\ ClearLocals
    /\ UNCHANGED <<pending, exitCode>>

\* lines 211-215: the listing is requested and awaited
GetThatLogList(ph, c, lx, cy) ==
    /\ pc' = "list_wait"
    /\ phase' = ph
    /\ caller' = c
    /\ listed' = <<>>
    /\ logx' = lx
    /\ cyc' = [cy EXCEPT !.lists = @ + 1]
    /\ UNCHANGED <<fileobjs, doRollover, timers, pending, exitCode>>

\* lines 272-281: fetchLogContent is called for every tracked descriptor and
\* the parse of all of them is awaited
FetchStart(fo, roll, cy) ==
    /\ pc' = "fetching"
    /\ fileobjs' = fo
    /\ doRollover' = roll
    /\ pending' = 1..Len(fo)
    /\ cyc' = [cy EXCEPT !.fetches = @ + Len(fo)]
    /\ ClearLocals
    /\ UNCHANGED <<timers, exitCode>>

\* lines 58-63 ending the process with status 0 on an empty list
ReturnToRunGraceful(res) == IF Len(res) = 0 THEN Exit(0) ELSE SetImmediate(res)

\* lines 58-63 without the test of line 58
ReturnToRunUnchecked(res) == SetImmediate(res)

\* lines 58-63
ReturnToRun(res) == IF Len(res) = 0 THEN Exit(-1) ELSE SetImmediate(res)

\* lines 263-268 with the sizes of the merged set reset as lines 299-301 do
ReturnToRefreshReset(res, cy) == FetchStart(ResetSizes(MergeNew(fileobjs, res)), doRollover, cy)

\* lines 263-268, then the fetch
ReturnToRefresh(res, cy) == FetchStart(MergeNew(fileobjs, res), doRollover, cy)

\* lines 297-307
ReturnToRollover(res, cy) ==
    IF Len(res) # 0
    THEN SetTimeout(ResetSizes(res), FALSE, cy)
    ELSE SetTimeout(res, doRollover, cy)

Return(c, res, cy) ==
    CASE c = "run" -> ReturnToRun(res)
      [] c = "refresh" -> ReturnToRefresh(res, cy)
      [] OTHER -> ReturnToRollover(res, cy)

\* lines 195-203
PollingOf(p) ==
    IF Conf(p).polling_interval # <<>> THEN Conf(p).polling_interval[1] ELSE pollingSeconds

\* lines 82-88
RefreshOf(p) ==
    IF Conf(p).refresh_loglist_interval # <<>>
    THEN Conf(p).refresh_loglist_interval[1]
    ELSE refreshLogListSeconds

\* lines 68-79 falling back to a profile of the mapping where the code exits
DontInteractProfileFallback(name) ==
    IF Cardinality(profiles) = 1 THEN CHOOSE p \in profiles : TRUE
    ELSE IF name \in profiles THEN name
    ELSE CHOOSE p \in profiles : TRUE

\* lines 68-79: the profile dontInteract resolves, NoProfile when it exits
DontInteractProfile(name) ==
    IF Cardinality(profiles) = 1 THEN CHOOSE p \in profiles : TRUE
    ELSE IF name = NoName THEN NoProfile
    ELSE IF name \notin profiles THEN NoProfile
    ELSE name

\* lines 66-92: dontInteract up to its first await
DontInteractBegin(c, name, cy) ==
    IF profile = NoProfile
    THEN LET p == DontInteractProfile(name) IN
         IF p = NoProfile
         THEN Exit(-1) /\ UNCHANGED profVars
         ELSE /\ profile' = p
              /\ pollingSeconds' = PollingOf(p)
              /\ refreshLogListSeconds' = RefreshOf(p)
              /\ nextLogRefresh' = <<now + RefreshOf(p)>>
              /\ GetThatLogList("di_log", c, <<>>, cy)
    ELSE /\ nextLogRefresh' = <<now + refreshLogListSeconds>>
         /\ GetThatLogList("di_log", c, <<>>, cy)
         /\ UNCHANGED <<profile, pollingSeconds, refreshLogListSeconds>>

\* lines 137-152: interact once a profile name is known
InteractChosen(c, name, cy) ==
    IF name = NoName \/ name \notin profiles
    THEN Exit(-1) /\ UNCHANGED profVars
    ELSE /\ profile' = name
         /\ pollingSeconds' = PollingOf(name)
         /\ GetThatLogList("i_log", c, <<>>, cy)
         /\ UNCHANGED <<refreshLogListSeconds, nextLogRefresh>>

\* lines 119-152 without the test of line 120: the profile is resolved anew
InteractBeginAnew(c, name, cy) ==
    IF Cardinality(profiles) = 1
    THEN /\ profile' = CHOOSE p \in profiles : TRUE
         /\ pollingSeconds' = PollingOf(CHOOSE p \in profiles : TRUE)
         /\ GetThatLogList("i_log", c, <<>>, cy)
         /\ UNCHANGED <<refreshLogListSeconds, nextLogRefresh>>
    ELSE IF name = NoName
         THEN /\ pc' = "i_profile_prompt"
              /\ caller' = c
              /\ cyc' = cy
              /\ UNCHANGED <<phase, listed, logx, fileobjs, doRollover, timers,
                             pending, exitCode>>
              /\ UNCHANGED profVars
         ELSE InteractChosen(c, name, cy)

\* lines 119-152: interact up to its first await
InteractBegin(c, name, cy) ==
    IF profile = NoProfile
    THEN IF Cardinality(profiles) = 1
         THEN /\ profile' = CHOOSE p \in profiles : TRUE
              /\ pollingSeconds' = PollingOf(CHOOSE p \in profiles : TRUE)
              /\ GetThatLogList("i_log", c, <<>>, cy)
              /\ UNCHANGED <<refreshLogListSeconds, nextLogRefresh>>
         ELSE IF name = NoName
              THEN /\ pc' = "i_profile_prompt"
                   /\ caller' = c
                   /\ cyc' = cy
                   /\ UNCHANGED <<phase, listed, logx, fileobjs, doRollover, timers,
                                  pending, exitCode>>
                   /\ UNCHANGED profVars
              ELSE InteractChosen(c, name, cy)
    ELSE /\ GetThatLogList("i_log", c, <<>>, cy)
         /\ UNCHANGED profVars

\* lines 254-307: pollLogs from the rollover test to its next await
Body(cy) ==
    IF ~doRollover
    THEN IF Len(fileobjs) = 0
         THEN Throw /\ UNCHANGED profVars
         ELSE LET cy2 == [cy EXCEPT !.old = UtcDay(fileobjs[1].date) < UtcDay(now)] IN
              IF RolledOver(fileobjs, now)
              THEN FetchStart(fileobjs, TRUE, cy2) /\ UNCHANGED profVars
              ELSE IF RefreshDue(now)
                   THEN DontInteractBegin("refresh", NoName, cy2)
                   ELSE FetchStart(fileobjs, doRollover, cy2) /\ UNCHANGED profVars
    ELSE IF interactive
         THEN InteractBegin("rollover", NoName, cy)
         ELSE DontInteractBegin("rollover", NoName, cy)

----
\* lines 34-39 and 325-358: log.conf.json is read (and dw.json when it names
\* no profile); a missing or invalid file ends the process
ReadLogConf ==
    /\ pc = "start"
    /\ \/ /\ Exit(-1)
          /\ UNCHANGED cfgVars
       \/ /\ profiles' \in ProfileMaps
          /\ interactive' \in BOOLEAN
          /\ pc' = "run"
          /\ UNCHANGED <<caller, phase, listed, logx, fileobjs, doRollover, timers,
                         pending, exitCode, cyc>>
    /\ UNCHANGED <<profVars, profilename, token, errorcount, latestCodeprofilerLogSent,
                   now, newfiles, lastcp>>

\* lines 51-56: run calls interact or dontInteract with the profile argument
Run ==
    /\ pc = "run"
    /\ profilename' = NoName
    /\ IF interactive
       THEN InteractBegin("run", profilename, cyc)
       ELSE DontInteractBegin("run", profilename, cyc)
    /\ UNCHANGED <<cfgVars, token, errorcount, latestCodeprofilerLogSent, now,
                   newfiles, lastcp>>

\* lines 125-134: the profile prompt answers (NoName: nothing selected) and
\* line 134 stores the answer in profilename
ProfilePromptReturn ==
    /\ pc = "i_profile_prompt"
    /\ \E v \in profiles \cup {NoName} :
          /\ profilename' = v
          /\ InteractChosen(caller, v, cyc)
    /\ UNCHANGED <<cfgVars, token, errorcount, latestCodeprofilerLogSent,
                   now, newfiles, lastcp>>

\* line 92: the .log listing is in
DontInteractListing ==
    /\ pc = "list_wait"
    /\ phase = "di_log"
    /\ pc' = "di_filter"
    /\ listed' \in Discovered[now, ".log"]
    /\ UNCHANGED <<caller, phase, logx, cfgVars, profVars, profilename, token,
                   errorcount, latestCodeprofilerLogSent, fileobjs, doRollover, timers,
                   pending, exitCode, now, cyc, newfiles, lastcp>>

\* lines 93-106 (and 116 when the profiler is not wanted): the allow-list is
\* applied to the .log listing
DontInteractLogs ==
    /\ pc = "di_filter"
    /\ LET lx == FilterLogTypes(profile, listed) IN
          IF WantsCodeprofiler(profile)
          THEN \* line 106: getThatLogList(profile, '.csv'), fileobjs still in scope
               /\ pc' = "list_wait"
               /\ phase' = "di_csv"
               /\ logx' = lx
               /\ cyc' = [cyc EXCEPT !.lists = @ + 1]
               /\ UNCHANGED <<caller, listed, fileobjs, doRollover, timers, pending,
                              exitCode, newfiles, lastcp>>
          ELSE /\ Return(caller, lx, cyc)
               /\ newfiles' = lx
               /\ lastcp' = <<>>
    /\ UNCHANGED <<cfgVars, profVars, profilename, token, errorcount,
                   latestCodeprofilerLogSent, now>>

\* whether the preceding dontInteract call saw cp as the newest profiler file
\* too, and whether it returned it then
SeenBefore(cp) ==
    IF lastcp # <<>> /\ lastcp[1].cp = cp
    THEN (IF lastcp[1].added THEN "added" ELSE "skipped")
    ELSE "no"

\* lines 106-116: the profiler listing is in
DontInteractCodeprofiler ==
    /\ pc = "list_wait"
    /\ phase = "di_csv"
    /\ \E cpfileobjs \in Discovered[now, ".csv"] :
          LET res == WithCodeprofiler(logx, latestCodeprofilerLogSent, cpfileobjs) IN
          /\ Return(caller, res, cyc)
          /\ newfiles' = res
          /\ latestCodeprofilerLogSent' = LatestAfter(latestCodeprofilerLogSent, cpfileobjs)
          /\ lastcp' = IF Len(cpfileobjs) > 0
                       THEN <<[cp |-> Newest(cpfileobjs),
                               added |-> Len(res) > Len(logx),
                               again |-> SeenBefore(Newest(cpfileobjs))]>>
                       ELSE <<>>
    /\ UNCHANGED <<cfgVars, profVars, profilename, token, errorcount, now>>

\* lines 152-184: the .log listing is in, sorted and shown in the prompt
InteractLogs ==
    /\ pc = "list_wait"
    /\ phase = "i_log"
    /\ pc' = "i_log_prompt"
    /\ \E fo \in Discovered[now, ".log"] : listed' = SortByDateDesc(fo)
    /\ UNCHANGED <<caller, phase, logx, cfgVars, profVars, profilename, token,
                   errorcount, latestCodeprofilerLogSent, fileobjs, doRollover, timers,
                   pending, exitCode, now, cyc, newfiles, lastcp>>

\* lines 186-192: the log prompt answers (<<>>: cancelled, no value)
LogPromptReturn ==
    /\ pc = "i_log_prompt"
    /\ \E value \in {<<>>} \cup {<<chosen>> : chosen \in SUBSET (1..Len(listed))} :
          LET res == IF value = <<>> THEN <<>> ELSE Selected(listed, value[1]) IN
          /\ Return(caller, res, cyc)
          /\ newfiles' = res
    /\ UNCHANGED <<cfgVars, profVars, profilename, token, errorcount,
                   latestCodeprofilerLogSent, now, lastcp>>

\* the timer (or the immediate) is due and runs pollLogs
TimerFire ==
    /\ pc = "idle"
    /\ timers # <<>>
    /\ now >= Head(timers)
    /\ pc' = "entry"
    /\ timers' = Tail(timers)
    /\ cyc' = NewCycle
    /\ newfiles' = <<>>
    /\ UNCHANGED <<caller, phase, listed, logx, cfgVars, profVars, profilename,
                   token, errorcount, latestCodeprofilerLogSent, fileobjs, doRollover,
                   pending, exitCode, now, lastcp>>

\* lines 246-252, and on to the next await
PollLogs ==
    /\ pc = "entry"
    /\ IF OverBudget(profile)
       THEN /\ errorcount' = 0
            /\ token' = Null
            /\ pc' = "authorize"
            /\ cyc' = [cyc EXCEPT !.auths = @ + 1]
            /\ UNCHANGED <<caller, phase, listed, logx, profVars, fileobjs, doRollover,
                           timers, pending, exitCode>>
       ELSE /\ Body(cyc)
            /\ UNCHANGED <<token, errorcount>>
    /\ UNCHANGED <<cfgVars, profilename, latestCodeprofilerLogSent, now, newfiles, lastcp>>

\* line 251: authorize resolves, having stored a new token in the profile
AuthorizeReturn ==
    /\ pc = "authorize"
    /\ token' = "token"
    /\ Body(cyc)
    /\ UNCHANGED <<cfgVars, profilename, errorcount, latestCodeprofilerLogSent, now,
                   newfiles, lastcp>>

\* what fetchLogContent may do to a descriptor: fail, or advance its size
Outcomes(d) ==
    {[ok |-> FALSE, size |-> 0]} \cup
    {[ok |-> TRUE, size |-> n] :
        n \in (IF HasSize(d) /\ d.size >= 0 THEN d.size ELSE 0)..MaxSize}

Fetched(d, o) == IF o.ok THEN WithSize(d, o.size) ELSE d

\* one fetchLogContent promise resolves: the fetcher has advanced the
\* descriptor's size, or counted an error
FetchResolve ==
    /\ pc = "fetching"
    /\ \E i \in pending :
          /\ pending' = pending \ {i}
          /\ \E o \in Outcomes(fileobjs[i]) :
                /\ fileobjs' = [fileobjs EXCEPT ![i] = Fetched(fileobjs[i], o)]
                /\ errorcount' = IF o.ok THEN errorcount
                                 ELSE Min(errorcount + 1, errorlimit + 1)
    /\ UNCHANGED <<pc, caller, phase, listed, logx, cfgVars, profVars, profilename, token,
                   latestCodeprofilerLogSent, doRollover, timers, exitCode, now, cyc,
                   newfiles, lastcp>>

\* lines 272-288 and 307: logparser.process resolves once every fetch has;
\* emit, drop the profiler file, arm the timer
FetchDone ==
    /\ pc = "fetching"
    /\ pending = {}
    /\ SetTimeout(RemoveCodeprofiler(fileobjs), doRollover, [cyc EXCEPT !.emits = @ + 1])
    /\ newfiles' = <<>>
    /\ UNCHANGED <<cfgVars, profVars, profilename, token, errorcount,
                   latestCodeprofilerLogSent, now, lastcp>>

\* time passes while the process waits for its timer (which may fire late)
Tick ==
    /\ pc = "idle"
    /\ now < MaxTime
    /\ now' = now + 1
    /\ UNCHANGED <<pc, caller, phase, listed, logx, cfgVars, profVars, profilename,
                   token, errorcount, latestCodeprofilerLogSent, fileobjs, doRollover,
                   timers, pending, exitCode, cyc, newfiles, lastcp>>

Next ==
    \/ ReadLogConf
    \/ Run
    \/ ProfilePromptReturn
    \/ DontInteractListing
    \/ DontInteractLogs
    \/ DontInteractCodeprofiler
    \/ InteractLogs
    \/ LogPromptReturn
    \/ TimerFire
    \/ PollLogs
    \/ AuthorizeReturn
    \/ FetchResolve
    \/ FetchDone
    \/ Tick

Spec == Init /\ [][Next]_vars

(***************************************************************************)
(* Properties.                                                             *)
(***************************************************************************)
CsvTracked == {i \in 1..Len(fileobjs) : EndsWithCsv(fileobjs[i])}

\* a pollLogs invocation is between its first statement and its last
Running == cyc.ran /\ pc \in {"entry", "authorize", "list_wait", "di_filter", "i_profile_prompt",
                              "i_log_prompt", "fetching"}

\* the cycle found the first tracked descriptor dated before today with the flag clear
DetectsRollover == cyc.ran /\ ~cyc.roll /\ cyc.old

\* C1 as stated: a cycle that starts with the rollover flag clear while the
\* current UTC day is after the first tracked descriptor's date sets the flag
\* and has fetched no content when the next cycle is scheduled.
C1_NoFetchOnDetection ==
    (DetectsRollover /\ cyc.arms = 1) => (doRollover /\ cyc.fetches = 0)

\* C1 amended: such a cycle sets the rollover flag, runs no discovery, and
\* still fetches every tracked descriptor once and emits before it schedules
\* the next cycle; the rollover handling is left to that next cycle.
C1_FetchesOldLogsOnDetection ==
    DetectsRollover =>
        /\ doRollover
        /\ cyc.lists = 0
        /\ cyc.fetches >= 1
        /\ (pc = "fetching" => cyc.fetches = Len(fileobjs))
        /\ (cyc.arms = 1 => cyc.emits = 1 /\ pending = {})

C1_Witness ==
    DetectsRollover /\ pc = "idle" /\ cyc.arms = 1 /\ cyc.fetches >= 1

\* C2 as stated: in every cycle that starts with the error count above the
\* limit, authorize has been called exactly once before any listing or
\* content fetch of the cycle.
C2_AlwaysReauthorizes ==
    (cyc.ran /\ cyc.errs > errorlimit /\ (cyc.lists > 0 \/ cyc.fetches > 0))
        => cyc.auths = 1

\* C2 amended: only for a profile that uses the API.  A cycle calls authorize
\* once if it starts with the error count above the limit and the profile
\* uses the API, and never otherwise; while authorize is awaited the token is
\* null, the error count is zero and the cycle has fetched no listing and no
\* content.
C2_ReauthorizesApiProfile ==
    /\ (pc = "authorize" =>
            /\ cyc.errs > errorlimit
            /\ Conf(profile).api
            /\ token = Null
            /\ errorcount = 0
            /\ cyc.auths = 1
            /\ cyc.lists = 0
            /\ cyc.fetches = 0)
    /\ (cyc.ran /\ pc # "entry" =>
            cyc.auths = IF Conf(profile).api /\ cyc.errs > errorlimit THEN 1 ELSE 0)

C2_Witness ==
    /\ pc = "idle"
    /\ cyc.roll
    /\ cyc.errs > errorlimit
    /\ cyc.auths = 1
    /\ cyc.arms = 1
    /\ token # Null

\* C3 as stated: at most one pollLogs invocation is running or pending on a
\* timer, and every invocation arms the timer exactly once, after all its
\* fetches have resolved and the emission (in a rollover cycle, the
\* discovery) is done.
C3_ArmsExactlyOnce ==
    /\ Len(timers) + (IF Running THEN 1 ELSE 0) <= 1
    /\ cyc.arms <= 1
    /\ (cyc.arms = 1 =>
            /\ pending = {}
            /\ (IF cyc.roll THEN cyc.lists >= 1 ELSE cyc.emits = 1))
    /\ (cyc.ran /\ ~Running => cyc.arms = 1)

\* C4 as stated: the tracked set never holds more than one descriptor whose
\* name ends in csv.
C4_AtMostOneCsv == Cardinality(CsvTracked) <= 1

\* C5 as stated: when two successive dontInteract calls see the same newest
\* profiler file, the first returned it and the second does not.
C5_FirstReturnsSecondNot ==
    (lastcp # <<>> /\ lastcp[1].again # "no")
        => (lastcp[1].again = "added" /\ ~lastcp[1].added)

\* C5 amended: when two successive dontInteract calls see the same newest
\* profiler file, the second does not return it.  A call returns the newest
\* profiler file only if it records it as last sent, and leaves it out only
\* if the file recorded as last sent is not older; so the first of the two
\* returns it only when nothing was recorded or something older was.
C5_SecondReturnsNone ==
    lastcp # <<>> =>
        /\ (lastcp[1].again # "no" => ~lastcp[1].added)
        /\ (lastcp[1].added => latestCodeprofilerLogSent = <<lastcp[1].cp>>)
        /\ (~lastcp[1].added =>
                /\ latestCodeprofilerLogSent # <<>>
                /\ latestCodeprofilerLogSent[1].date >= lastcp[1].cp.date)

C5_Witness ==
    /\ lastcp # <<>>
    /\ lastcp[1].again = "added"
    /\ ~lastcp[1].added
    /\ latestCodeprofilerLogSent = <<lastcp[1].cp>>

\* the step in which the refresh's dontInteract call returns to pollLogs
RefreshReturns ==
    pc \in {"list_wait", "di_filter"} /\ caller = "refresh" /\ pc' = "fetching"

Appended == SubSeq(fileobjs', Len(fileobjs) + 1, Len(fileobjs'))

\* C6: the refresh leaves every tracked descriptor where and as it was, and
\* appends exactly the discovered descriptors whose name is not tracked yet,
\* each once.
C6_RefreshOnlyAppendsNew ==
    [][RefreshReturns =>
        /\ Len(fileobjs') >= Len(fileobjs)
        /\ SubSeq(fileobjs', 1, Len(fileobjs)) = fileobjs
        /\ {Appended[i] : i \in 1..Len(Appended)} =
               {newfiles'[i] : i \in {j \in 1..Len(newfiles') :
                                         ~\E k \in 1..Len(fileobjs) :
                                             fileobjs[k].log = newfiles'[j].log}}
        /\ \A i, j \in 1..Len(Appended) : i # j => Appended[i].log # Appended[j].log]_vars

\* a refresh has just returned one name that was tracked (and fetched before)
\* and one that was not
C6_Witness ==
    /\ pc = "fetching"
    /\ cyc.lists >= 1
    /\ pending = 1..Len(fileobjs)
    /\ Len(newfiles) = 2
    /\ Len(fileobjs) = 2
    /\ HasSize(fileobjs[1])
    /\ fileobjs[1].log = newfiles[1].log
    /\ fileobjs[2] = newfiles[2]

\* C7: a cycle that starts with the rollover flag set fetches no content and
\* re-runs discovery; when it schedules the next cycle, a non-empty discovery
\* has cleared the flag and set every size to -1, and an empty one has left
\* the flag set (with an empty tracked set).
C7_RolloverHandling ==
    (cyc.ran /\ cyc.roll) =>
        /\ cyc.fetches = 0
        /\ cyc.emits = 0
        /\ pc # "fetching"
        /\ (pc = "idle" =>
                /\ cyc.lists >= 1
                /\ cyc.arms = 1
                /\ Len(fileobjs) = Len(newfiles)
                /\ (IF newfiles # <<>>
                    THEN /\ ~doRollover
                         /\ \A i \in 1..Len(fileobjs) :
                               /\ HasSize(fileobjs[i])
                               /\ fileobjs[i].size = -1
                               /\ fileobjs[i].log = newfiles[i].log
                    ELSE doRollover))
        /\ (pc # "idle" => doRollover)

C7_Witness ==
    /\ cyc.ran
    /\ cyc.roll
    /\ pc = "idle"
    /\ newfiles # <<>>
    /\ ~doRollover
    /\ fileobjs[1].size = -1

\* startup is over: run has its descriptor list and has acted on it
StartupDiscovered ==
    ~cyc.ran /\ cyc.lists >= 1 /\ pc \notin {"list_wait", "di_filter", "i_log_prompt"}

\* C8: when the initial discovery returns no descriptor the process exits
\* with a non-zero status and nothing is scheduled; the first poll cycle is
\* scheduled only with a non-empty tracked set.
C8_EmptyStartupExits ==
    /\ (StartupDiscovered =>
            IF newfiles = <<>>
            THEN pc = "exited" /\ exitCode # <<>> /\ exitCode[1] # 0 /\ timers = <<>>
            ELSE pc = "idle" /\ fileobjs = newfiles /\ Len(timers) = 1)
    /\ (pc = "exited" => ~cyc.ran /\ timers = <<>>)
    /\ (timers # <<>> /\ ~cyc.ran => fileobjs # <<>>)

C8_Witness ==
    StartupDiscovered /\ newfiles = <<>> /\ pc = "exited" /\ exitCode = <<255>>

\* C9 as stated: no two tracked descriptors have the same log name.
C9_UniqueNames ==
    \A i, j \in 1..Len(fileobjs) : i # j => fileobjs[i].log # fileobjs[j].log

\* C10 as stated: while a cycle fetches content, every tracked descriptor's
\* date is on the current UTC day.
C10_FetchedAreOfToday ==
    pc = "fetching" => \A i \in 1..Len(fileobjs) : UtcDay(fileobjs[i].date) = UtcDay(now)

\* C10 amended: while a cycle fetches content without having set the rollover
\* flag, the first tracked descriptor's date is not before the current UTC
\* day.  (The cycle that sets the flag fetches descriptors dated before
\* today, and only the first descriptor's date is ever tested.)
C10_FirstIsNotOlder ==
    (pc = "fetching" /\ ~doRollover) => UtcDay(fileobjs[1].date) >= UtcDay(now)

\* a fetch on the second day, of logs discovered that day
C10_Witness ==
    /\ pc = "fetching"
    /\ ~doRollover
    /\ UtcDay(now) >= 1
    /\ UtcDay(fileobjs[1].date) = UtcDay(now)

\* C11: once a profile is active, no step replaces it, and every poll cycle
\* runs with an active profile.
C11_ProfileNeverReplaced ==
    [][/\ (profile # NoProfile => profile' = profile)
       /\ (cyc'.ran => profile' # NoProfile /\ profile' \in profiles)]_vars

\* an interactive rollover recovery with several profiles to choose from has
\* re-run discovery
C11_Witness ==
    /\ cyc.ran
    /\ cyc.roll
    /\ cyc.lists >= 1
    /\ interactive
    /\ Cardinality(profiles) > 1
    /\ pc = "idle"
    /\ profile # NoProfile

\* profile resolution ends with p as the active profile and goes on to discovery
ResolvedTo(p) == profile' = p /\ p \in profiles /\ pc' = "list_wait"

\* profile resolution ends the process with a non-zero status and no profile
ResolutionFatal ==
    pc' = "exited" /\ exitCode' # <<>> /\ exitCode'[1] # 0 /\ profile' = NoProfile

\* C12: profile resolution at startup.  A mapping of one profile selects it
\* whatever the name; otherwise a name in the mapping selects that profile, a
\* name not in the mapping is fatal, no name is fatal in non-interactive mode
\* and prompts in interactive mode, and the prompt's answer selects a profile
\* of the mapping or, when nothing is selected, is fatal.
C12_ProfileResolution ==
    [][/\ (pc = "run" =>
              IF Cardinality(profiles) = 1 THEN \E p \in profiles : ResolvedTo(p)
              ELSE IF profilename \in profiles THEN ResolvedTo(profilename)
              ELSE IF profilename # NoName THEN ResolutionFatal
              ELSE IF interactive
                   THEN pc' = "i_profile_prompt" /\ profile' = NoProfile
                   ELSE ResolutionFatal)
       /\ (pc = "i_profile_prompt" =>
              IF profilename' \in profiles
              THEN ResolvedTo(profilename')
              ELSE profilename' = NoName /\ ResolutionFatal)]_vars

\* the prompt's answer has become the active profile
C12_Witness ==
    /\ pc = "list_wait"
    /\ ~cyc.ran
    /\ Cardinality(profiles) > 1
    /\ profilename \in profiles
    /\ profile = profilename

\* the step in which the log prompt returns with nothing selected
NothingSelected == pc = "i_log_prompt" /\ newfiles' = <<>>

\* C13 as stated: when the user leaves the startup log selection with nothing
\* selected, the process exits with status 0.
C13_CancelExitsZero ==
    [][(NothingSelected /\ caller = "run") => (pc' = "exited" /\ exitCode' = <<0>>)]_vars

\* C13 amended: every exit of the process has the non-zero status 255, the
\* exit after a startup log selection with nothing selected included; exits
\* happen only before the first poll cycle, and a log selection with nothing
\* selected during rollover recovery does not end the process.
C13_EveryExitIsNonZero ==
    [][/\ (pc' = "exited" => exitCode' = <<255>> /\ ~cyc'.ran /\ timers' = <<>>)
       /\ (pc' # "exited" => exitCode' = <<>>)
       /\ (NothingSelected =>
              IF caller = "run"
              THEN pc' = "exited"
              ELSE pc' = "idle" /\ cyc'.arms = 1)]_vars

\* the process has exited after an interactive startup selection of nothing
C13_Witness ==
    /\ pc = "exited"
    /\ interactive
    /\ StartupDiscovered
    /\ newfiles = <<>>
    /\ profile # NoProfile
    /\ exitCode = <<255>>


(***************************************************************************)
(* C14                                                                     *)
(***************************************************************************)
\* the names the profile's allow-list admits, read off the configuration
AllowListed(p, d) ==
    \/ ~Conf(p).has_log_types
    \/ Conf(p).log_types = <<>>
    \/ \E i \in DOMAIN Conf(p).log_types : Conf(p).log_types[i] = d.log.pre

\* the descriptors dontInteract goes on with after the allow-list was applied
KeptLogs == IF pc' = "list_wait" THEN logx' ELSE newfiles'

\* C14: in non-interactive discovery with a non-empty allow-list a discovered
\* .log descriptor is kept if and only if the text before the first hyphen of
\* its name is an element of the allow-list, in the order of the listing; with
\* an absent or empty allow-list every discovered .log descriptor is kept.
C14_AllowListFilter ==
    [][pc = "di_filter" =>
         KeptLogs = SelectSeq(listed, LAMBDA d : AllowListed(profile, d))]_vars

\* the allow-list was applied to a listing of two descriptors: one was kept,
\* the other dropped
C14_Witness ==
    /\ pc = "list_wait"
    /\ phase = "di_csv"
    /\ Conf(profile).has_log_types
    /\ Conf(profile).log_types # <<>>
    /\ Len(listed) = 2
    /\ Len(logx) = 1
    /\ logx[1].log.pre = "error"
    /\ \E i \in 1..2 : listed[i].log.pre = "warn"

\* an empty allow-list kept the whole listing
C14_WitnessEmptyAllowList ==
    /\ pc = "idle"
    /\ Conf(profile).has_log_types
    /\ Conf(profile).log_types = <<>>
    /\ \E i \in 1..Len(newfiles) : newfiles[i].log.pre = "warn"


(***************************************************************************)
(* C15                                                                     *)
(***************************************************************************)
\* the tracked .log descriptors, in order, with their watermarks
LogsOf(fo) == SelectSeq(fo, LAMBDA d : ~EndsWithCsv(d))

IsPrefix(s, t) == Len(s) <= Len(t) /\ SubSeq(t, 1, Len(s)) = s

\* rollover recovery (lines 292-302) hands a new tracked set to the timer
RolloverRecovers == caller = "rollover" /\ pc' = "idle"

\* a step of the fetcher, the only step that is not the orchestrator's
FetcherStep == pc = "fetching" /\ pc' = "fetching"

\* C15: in the polling cycles that run with the rollover flag clear every
\* tracked descriptor is passed to content fetch once per cycle (a cycle ends
\* only after one fetch per descriptor has been started and has resolved),
\* and outside rollover recovery no step of the orchestrator changes the
\* watermark of a tracked .log descriptor: the .log descriptors stay as they
\* are, in order, new ones being appended; the fetcher's own step never
\* lowers a watermark, so the watermark successive fetches see does not
\* decrease.
C15_WatermarkKept ==
    [][/\ (pc # "fetching" /\ pc' = "fetching")
             => pending' = 1..Len(fileobjs') /\ cyc'.fetches = Len(fileobjs')
       /\ (cyc.ran /\ ~cyc.roll /\ pc # "idle" /\ pc' = "idle")
             => pc = "fetching" /\ pending = {} /\ cyc.fetches = Len(fileobjs)
       /\ FetcherStep
             => /\ Cardinality(pending \ pending') = 1
                /\ pending' \subseteq pending
                /\ \A i \in 1..Len(fileobjs) :
                      /\ fileobjs'[i].log = fileobjs[i].log
                      /\ i \notin (pending \ pending') => fileobjs'[i] = fileobjs[i]
                      /\ (HasSize(fileobjs[i]) /\ fileobjs[i].size >= 0)
                            => HasSize(fileobjs'[i]) /\ fileobjs'[i].size >= fileobjs[i].size
       /\ (~FetcherStep /\ ~RolloverRecovers)
             => IsPrefix(LogsOf(fileobjs), LogsOf(fileobjs'))]_vars

\* a later cycle without a rollover in between passes a .log descriptor to
\* content fetch with the watermark an earlier fetch left, next to one that
\* a refresh has just appended
C15_Witness ==
    /\ pc = "fetching"
    /\ ~cyc.roll
    /\ ~doRollover
    /\ \E i \in pending : /\ ~EndsWithCsv(fileobjs[i])
                          /\ HasSize(fileobjs[i])
                          /\ fileobjs[i].size = MaxSize
    /\ \E i \in pending : ~EndsWithCsv(fileobjs[i]) /\ ~HasSize(fileobjs[i])


(***************************************************************************)
(* C16                                                                     *)
(***************************************************************************)
\* the allow-list is absent or has the profiler category among its elements
AdmitsCodeprofiler(p) ==
    \/ ~Conf(p).has_log_types
    \/ \E i \in DOMAIN Conf(p).log_types : Conf(p).log_types[i] = "codeprofiler"

\* the result of the discovery whose profiler listing has just been scanned,
\* read off the newest profiler file recorded in lastcp'
ProfilerRule ==
    IF lastcp' = <<>>
    THEN newfiles' = logx
    ELSE IF latestCodeprofilerLogSent = <<>>
            \/ lastcp'[1].cp.date > latestCodeprofilerLogSent[1].date
         THEN newfiles' = Append(logx, lastcp'[1].cp)
         ELSE newfiles' = logx

\* C16 as stated: in non-interactive discovery a profile whose allow-list is
\* absent or contains 'codeprofiler' has the profiler listing consulted, and
\* of a listing with a file of today the one of greatest date is added if and
\* only if none was sent before or its date is strictly after that of the
\* last one sent; a profile whose allow-list excludes the profiler category
\* gets no profiler file.
C16_ProfilerFileAdded ==
    [][/\ (pc = "di_filter" /\ AdmitsCodeprofiler(profile))
             => pc' = "list_wait" /\ phase' = "di_csv"
       /\ (pc = "di_filter" /\ ~AdmitsCodeprofiler(profile))
             => \A i \in 1..Len(newfiles') : ~EndsWithCsv(newfiles'[i])
       /\ (pc = "list_wait" /\ phase = "di_csv") => ProfilerRule]_vars


(***************************************************************************)
(* C17                                                                     *)
(***************************************************************************)
\* C17 as stated: when a polling cycle ends (after the emission, as the next
\* cycle is scheduled) the tracked set holds no csv descriptor, so that a
\* profiler descriptor is fetched in one cycle only, and the other
\* descriptors are left in place.
C17_NoCsvAfterCycle ==
    [][(pc = "fetching" /\ pc' = "idle")
          => /\ \A i \in 1..Len(fileobjs') : ~EndsWithCsv(fileobjs'[i])
             /\ LogsOf(fileobjs') = LogsOf(fileobjs)]_vars


(***************************************************************************)
(* C18                                                                     *)
(***************************************************************************)
\* The scheduling the claim assumes: the event loop runs every callback and
\* every continuation that is ready (a timer that is due fires, an awaited
\* collaborator call or prompt returns), and time passes.
Fairness ==
    /\ WF_vars(ReadLogConf)
    /\ WF_vars(Run)
    /\ WF_vars(ProfilePromptReturn)
    /\ WF_vars(DontInteractListing)
    /\ WF_vars(DontInteractLogs)
    /\ WF_vars(DontInteractCodeprofiler)
    /\ WF_vars(InteractLogs)
    /\ WF_vars(LogPromptReturn)
    /\ WF_vars(TimerFire)
    /\ WF_vars(PollLogs)
    /\ WF_vars(AuthorizeReturn)
    /\ WF_vars(FetchResolve)
    /\ WF_vars(FetchDone)
    /\ WF_vars(Tick)

FairSpec == Spec /\ Fairness

\* the polling loop has been entered: run has scheduled the first cycle
\* (line 63, which it does only with a non-empty tracked set)
InLoop == cyc.ran \/ (pc = "idle" /\ timers # <<>>)

\* C18 as stated: once startup has scheduled the loop with a non-empty
\* tracked set, and collaborators return and timers fire, poll cycles begin
\* again and again for ever.
C18_CyclesRecur == []<>(~InLoop \/ pc = "entry")


(***************************************************************************)
(* C19                                                                     *)
(***************************************************************************)
\* C19 as stated: a poll cycle that starts with the rollover flag clear finds
\* a non-empty tracked set, so that line 255 reads a descriptor; the removal
\* of the profiler descriptor never leaves the next cycle an empty set.
C19_TrackedNonEmpty ==
    /\ (pc \in {"entry", "authorize"} /\ ~doRollover) => fileobjs # <<>>
    /\ pc # "crashed"


(***************************************************************************)
(* C20                                                                     *)
(***************************************************************************)
\* dontInteract has passed line 91 and awaits its .log listing
DontInteractCalled == pc # "list_wait" /\ pc' = "list_wait" /\ phase' = "di_log"

\* the names and dates of the tracked descriptors
Tracked(fo) == [i \in 1..Len(fo) |-> [log |-> fo[i].log, date |-> fo[i].date]]

\* C20: nextLogRefresh is written only by dontInteract, and every call of it
\* that gets to its listing (at startup, at a refresh, at rollover recovery)
\* sets it to now plus the refresh interval; so in interactive mode it is
\* never set, no poll cycle refreshes the list, and once the loop runs the
\* tracked set changes only at rollover recovery.
C20_NextLogRefresh ==
    [][/\ nextLogRefresh' # nextLogRefresh => DontInteractCalled /\ ~interactive
       /\ DontInteractCalled
             => /\ nextLogRefresh' = <<now + refreshLogListSeconds'>>
                /\ caller' \in {"run", "refresh", "rollover"}
       /\ interactive'
             => /\ nextLogRefresh' = <<>>
                /\ caller' # "refresh"
                /\ (InLoop /\ Tracked(fileobjs') # Tracked(fileobjs)) => RolloverRecovers]_vars

\* a refresh has called dontInteract, which has moved nextLogRefresh on
C20_Witness ==
    /\ pc = "list_wait"
    /\ phase = "di_log"
    /\ caller = "refresh"
    /\ now >= 1
    /\ nextLogRefresh = <<now + refreshLogListSeconds>>

\* interactive mode: a later poll cycle fetches without having refreshed
C20_WitnessInteractive ==
    /\ interactive
    /\ pc = "fetching"
    /\ ~cyc.roll
    /\ now >= 2
    /\ cyc.lists = 0
    /\ nextLogRefresh = <<>>

====
